---- MODULE Spec2Model ----
(***************************************************************************)
(* Model of scripts/update_manifests.py: the manifest synchronizer that    *)
(* scans firmware/, spiffs/ and config/ and rewrites                        *)
(* firmware/<device>.manifest.json for every discovered device.            *)
(*                                                                         *)
(* File and directory names are sequences of one-character strings, so     *)
(* that VERSION_RE, int() and sorted() are computed character by           *)
(* character.  Names are drawn over an alphabet without line terminators,  *)
(* where the "$" of VERSION_RE means end of string.                        *)
(***************************************************************************)
EXTENDS Naturals, Sequences, FiniteSets, TLC

VARIABLES
    tree,       \* the three root trees firmware/, spiffs/, config/
    manifests,  \* contents of firmware/<device>.manifest.json, per device name
    pc,         \* position of main: "start", "loop", "exit"
    status,     \* "running", "ok", or the name of the uncaught exception
    todo,       \* devices of sorted(devices) not yet processed by the loop
    updated,    \* main's list `updated`
    out,        \* lines printed to standard output in the current run
    run,        \* number of the current invocation of main
    start,      \* manifests as they were when the current invocation began
    touched,    \* the binary changed between two invocations, if any
    lv          \* frame of one call of latest_version_dir (SpecVersion)

vars == <<tree, manifests, pc, status, todo, updated, out, run, start, touched, lv>>

----------------------------------------------------------------------------
(* Bounds of the model *)

MaxBytes == 2       \* longest file content, in bytes
MaxEntries == 2     \* most entries of one device directory in a run of main
MaxListing == 3     \* most entries of a directory given to latest_version_dir
MaxRuns == 2        \* invocations of main in one behaviour

----------------------------------------------------------------------------
(* Strings *)

RECURSIVE Join(_)
Join(cs) == IF cs = <<>> THEN "" ELSE Head(cs) \o Join(Tail(cs))

CodePoint ==
    "-" :> 45 @@ "." :> 46 @@
    "0" :> 48 @@ "1" :> 49 @@ "2" :> 50 @@ "3" :> 51 @@ "4" :> 52 @@
    "5" :> 53 @@ "6" :> 54 @@ "7" :> 55 @@ "8" :> 56 @@ "9" :> 57 @@
    "Z" :> 90 @@ "b" :> 98 @@ "v" :> 118 @@ "x" :> 120

Digits == {"0", "1", "2", "3", "4", "5", "6", "7", "8", "9"}

\* Python's str "<": lexicographic by code point, a proper prefix is smaller
RECURSIVE StrLess(_, _)
StrLess(a, b) ==
    IF b = <<>> THEN FALSE
    ELSE IF a = <<>> THEN TRUE
    ELSE IF Head(a) = Head(b) THEN StrLess(Tail(a), Tail(b))
    ELSE CodePoint[Head(a)] < CodePoint[Head(b)]

\* sorted(devices): insertion of each element of the set at its place
RECURSIVE Insert(_, _)
Insert(x, s) ==
    IF s = <<>> THEN <<x>>
    ELSE IF StrLess(x, Head(s)) THEN <<x>> \o s
    ELSE <<Head(s)>> \o Insert(x, Tail(s))

\* variant of sorted: descending order, as with reverse=True
RECURSIVE sorted_reverse(_)
sorted_reverse(S) ==
    IF S = {} THEN <<>>
    ELSE LET x == CHOOSE y \in S : \A z \in S : z = y \/ StrLess(z, y)
         IN  <<x>> \o sorted_reverse(S \ {x})

RECURSIVE sorted(_)
sorted(S) ==
    IF S = {} THEN <<>>
    ELSE LET x == CHOOSE y \in S : TRUE IN Insert(x, sorted(S \ {x}))

----------------------------------------------------------------------------
(* VERSION_RE = ^v(\d+\.\d+\.\d+)$ and the version tuple *)

\* index of the first position >= i of s that holds no digit (greedy \d*)
RECURSIVE SkipDigits(_, _)
SkipDigits(s, i) ==
    IF i <= Len(s) /\ s[i] \in Digits THEN SkipDigits(s, i + 1) ELSE i

\* \d+ at position i, its greedy match ending before j: the position after
\* it, or 0 when no digit is there
NonEmpty(i, j) == IF j > i THEN j ELSE 0
DigitsPlus(s, i) == NonEmpty(i, SkipDigits(s, i))

\* a literal character c at position i: the position after it, or 0
Literal(s, i, c) == IF i # 0 /\ i <= Len(s) /\ s[i] = c THEN i + 1 ELSE 0

DigitsAt(s, i) == IF i = 0 THEN 0 ELSE DigitsPlus(s, i)

\* "$": the pattern has matched up to position p, which must be the end
AtEnd(name, p) ==
    IF p # 0 /\ p = Len(name) + 1
    THEN <<TRUE, SubSeq(name, 2, Len(name))>>
    ELSE <<FALSE, <<>>>>

\* VERSION_RE.match(name): <<TRUE, group(1)>> or <<FALSE, <<>>>>
VERSION_RE_match(name) ==
    AtEnd(name,
          DigitsAt(name, Literal(name,
          DigitsAt(name, Literal(name,
          DigitsAt(name, Literal(name, 1, "v")), ".")), ".")))

DigitValue(c) == CodePoint[c] - 48

\* int(x) of a string of decimal digits
RECURSIVE int(_)
int(x) ==
    IF x = <<>> THEN 0
    ELSE 10 * int(SubSeq(x, 1, Len(x) - 1)) + DigitValue(x[Len(x)])

\* str.split("."): the pieces between the dots
RECURSIVE split(_, _)
split(x, acc) ==
    IF x = <<>> THEN <<acc>>
    ELSE IF Head(x) = "." THEN <<acc>> \o split(Tail(x), <<>>)
    ELSE split(Tail(x), Append(acc, Head(x)))

\* tuple(int(x) for x in m.group(1).split("."))
IntEach(parts) == [i \in 1..Len(parts) |-> int(parts[i])]
ver_tuple(group1) == IntEach(split(group1, <<>>))

\* Python's tuple ">" on tuples of integers
RECURSIVE TupleGreater(_, _)
TupleGreater(a, b) ==
    IF a = <<>> THEN FALSE
    ELSE IF b = <<>> THEN TRUE
    ELSE IF Head(a) = Head(b) THEN TupleGreater(Tail(a), Tail(b))
    ELSE Head(a) > Head(b)

----------------------------------------------------------------------------
(* latest_version_dir *)

NoFile == [exists |-> FALSE, data |-> <<>>]
File(data) == [exists |-> TRUE, data |-> data]

\* `best` of latest_version_dir: None, or (ver_tuple, version string, entry)
None == [some |-> FALSE, tuple |-> <<>>, version |-> <<>>,
         entry |-> [name |-> <<>>, is_dir |-> FALSE, bin |-> NoFile]]
Some(t, v, e) == [some |-> TRUE, tuple |-> t, version |-> v, entry |-> e]

\* variant of Compare: the version strings are compared, not the tuples
Compare_lexical(best, entry, group1, t) ==
    IF ~best.some \/ StrLess(best.version, group1) THEN Some(t, group1, entry) ELSE best

\* lines 48-50: the entry is a directory whose name matched; t is its ver_tuple
Compare(best, entry, group1, t) ==
    IF ~best.some \/ TupleGreater(t, best.tuple) THEN Some(t, group1, entry) ELSE best

\* lines 45-47: m is VERSION_RE.match(entry.name)
Matched(best, entry, m) ==
    IF ~m[1] THEN best ELSE Compare(best, entry, m[2], ver_tuple(m[2]))

\* one pass of the body of the for loop over device_dir.iterdir()
LoopBody(best, entry) ==
    IF ~entry.is_dir THEN best
    ELSE Matched(best, entry, VERSION_RE_match(entry.name))

RECURSIVE Fold(_, _)
Fold(best, list) ==
    IF list = <<>> THEN best ELSE Fold(LoopBody(best, Head(list)), Tail(list))

\* latest_version_dir(device_dir), device_dir.iterdir() yielding `list`
latest_version_dir(list) == Fold(None, list)

----------------------------------------------------------------------------
(* JSON documents and manifest files *)

\* a JSON value: a string, or an artifact record {url, sha256[, size]}
Str(s) == [type |-> "string", s |-> s, url |-> "", sha256 |-> "", size |-> <<>>]
Artifact(url, sha, size) ==
    [type |-> "object", s |-> "", url |-> url, sha256 |-> sha, size |-> size]

Pair(k, v) == [key |-> k, val |-> v]

\* a dict is the sequence of its items in insertion order
Has(d, k) == \E i \in 1..Len(d) : d[i].key = k
Get(d, k) == d[CHOOSE i \in 1..Len(d) : d[i].key = k].val

\* variant of SetItem: the item is added without removing the one in place
SetItem_append(d, k, v) == Append(d, Pair(k, v))

\* d[k] = v: an existing key keeps its place, a new key goes last
SetItem(d, k, v) ==
    IF Has(d, k)
    THEN [i \in 1..Len(d) |-> IF d[i].key = k THEN Pair(k, v) ELSE d[i]]
    ELSE Append(d, Pair(k, v))

\* variant of setdefault: plain assignment d[k] = v
setdefault_overwrite(d, k, v) ==
    IF Has(d, k)
    THEN [i \in 1..Len(d) |-> IF d[i].key = k THEN Pair(k, v) ELSE d[i]]
    ELSE Append(d, Pair(k, v))

\* d.setdefault(k, v)
setdefault(d, k, v) == IF Has(d, k) THEN d ELSE Append(d, Pair(k, v))

\* the contents of a manifest file: absent, not JSON, JSON that is no object,
\* or a JSON object written in some style with its members in file order
Absent == [kind |-> "absent", style |-> "", items |-> <<>>]
Malformed == [kind |-> "malformed", style |-> "", items |-> <<>>]
NonObject == [kind |-> "nonobject", style |-> "", items |-> <<>>]
Json(style, items) == [kind |-> "json", style |-> style, items |-> items]

\* json.load of an object: members in order, a repeated name keeps the last value
RECURSIVE json_load(_, _)
json_load(items, d) ==
    IF items = <<>> THEN d
    ELSE json_load(Tail(items), SetItem(d, Head(items).key, Head(items).val))

\* load_manifest(path): the exception raised, or the value returned
load_manifest(content) ==
    IF content.kind = "absent" THEN [raised |-> "", is_dict |-> TRUE, dict |-> <<>>]
    ELSE IF content.kind = "malformed"
         THEN [raised |-> "JSONDecodeError", is_dict |-> FALSE, dict |-> <<>>]
    ELSE IF content.kind = "nonobject"
         THEN [raised |-> "", is_dict |-> FALSE, dict |-> <<>>]
    ELSE [raised |-> "", is_dict |-> TRUE, dict |-> json_load(content.items, <<>>)]

\* what save_manifest(path, data) leaves in the file: json.dump(indent=2) + "\n"
save_manifest(data) == Json("indent2", data)

----------------------------------------------------------------------------
(* sha256_of *)

ChunkSize == 65536

HexDigit == <<"0", "1", "2", "3", "4", "5", "6", "7",
              "8", "9", "a", "b", "c", "d", "e", "f">>

\* two lowercase hexadecimal characters per byte
RECURSIVE hexdigest(_)
hexdigest(h) ==
    IF h = <<>> THEN ""
    ELSE HexDigit[(Head(h) \div 16) + 1] \o HexDigit[(Head(h) % 16) + 1]
         \o hexdigest(Tail(h))

\* the loop over f.read(65536): h.update(chunk) until the empty chunk.
\* SHA-256 is taken as injective: the digest is a hexadecimal encoding of
\* everything the hash object was fed.
RECURSIVE ReadChunks(_, _)
ReadChunks(rest, h) ==
    LET n == IF Len(rest) < ChunkSize THEN Len(rest) ELSE ChunkSize
        chunk == SubSeq(rest, 1, n)
    IN  IF chunk = <<>> THEN h ELSE ReadChunks(SubSeq(rest, n + 1, Len(rest)), h \o chunk)

sha256_of(data) == hexdigest(ReadChunks(data, <<>>))

\* bin_path.stat().st_size
st_size(data) == Len(data)

----------------------------------------------------------------------------
(* process_firmware, process_spiffs, process_config *)

REPO_URL_BASE == "https://raw.githubusercontent.com/kubkpower/halloween_dmx_pub/main"

\* f"{REPO_URL_BASE}/{rel.as_posix()}", rel given by its components
RECURSIVE as_posix(_)
as_posix(parts) ==
    IF Len(parts) = 1 THEN Join(parts[1])
    ELSE Join(Head(parts)) \o "/" \o as_posix(Tail(parts))

Url(parts) == REPO_URL_BASE \o "/" \o as_posix(parts)

FIRMWARE == <<"f", "i", "r", "m", "w", "a", "r", "e">>
SPIFFS == <<"s", "p", "i", "f", "f", "s">>
CONFIG == <<"c", "o", "n", "f", "i", "g">>
FIRMWARE_BIN == <<"f", "i", "r", "m", "w", "a", "r", "e", ".", "b", "i", "n">>
SPIFFS_BIN == <<"s", "p", "i", "f", "f", "s", ".", "b", "i", "n">>
CONFIG_YAML == <<"c", "o", "n", "f", "i", "g", ".", "y", "a", "m", "l">>

\* the outcome of a process_* call: the exception raised (NotADirectoryError
\* from iterdir() on a plain file), the return value, the manifest afterwards
Outcome(raised, found, manifest) ==
    [raised |-> raised, found |-> found, manifest |-> manifest]

\* {"url": ..., "sha256": sha256_of(bin_path), "size": bin_path.stat().st_size}
BinRecord(parts, data) == Artifact(Url(parts), sha256_of(data), <<st_size(data)>>)

\* variant of firmware_found: the version keeps the directory's leading v
firmware_found_keeps_v(manifest, device, result) ==
    IF ~result.some THEN Outcome("", FALSE, manifest)
    ELSE IF ~result.entry.bin.exists THEN Outcome("", FALSE, manifest)
    ELSE Outcome("", TRUE,
             SetItem(SetItem(manifest, "version", Str(Join(result.entry.name))),
                     "firmware",
                     BinRecord(<<FIRMWARE, device, result.entry.name, FIRMWARE_BIN>>,
                               result.entry.bin.data)))

\* variant of firmware_found: version is set before firmware.bin is looked for
firmware_found_version_first(manifest, device, result) ==
    IF ~result.some THEN Outcome("", FALSE, manifest)
    ELSE IF ~result.entry.bin.exists
         THEN Outcome("", FALSE, SetItem(manifest, "version", Str(Join(result.version))))
    ELSE Outcome("", TRUE,
             SetItem(SetItem(manifest, "version", Str(Join(result.version))),
                     "firmware",
                     BinRecord(<<FIRMWARE, device, result.entry.name, FIRMWARE_BIN>>,
                               result.entry.bin.data)))

\* lines 72-85, result being what latest_version_dir returned
firmware_found(manifest, device, result) ==
    IF ~result.some THEN Outcome("", FALSE, manifest)
    ELSE IF ~result.entry.bin.exists THEN Outcome("", FALSE, manifest)
    ELSE Outcome("", TRUE,
             SetItem(SetItem(manifest, "version", Str(Join(result.version))),
                     "firmware",
                     BinRecord(<<FIRMWARE, device, result.entry.name, FIRMWARE_BIN>>,
                               result.entry.bin.data)))

process_firmware(manifest, device, node) ==
    IF node.kind # "dir" THEN Outcome("NotADirectoryError", FALSE, manifest)
    ELSE firmware_found(manifest, device, latest_version_dir(node.list))

\* lines 90-101, result being what latest_version_dir returned
spiffs_found(manifest, device, result) ==
    IF ~result.some THEN Outcome("", FALSE, manifest)
    ELSE IF ~result.entry.bin.exists THEN Outcome("", FALSE, manifest)
    ELSE Outcome("", TRUE,
             SetItem(manifest, "spiffs",
                     BinRecord(<<SPIFFS, device, result.entry.name, SPIFFS_BIN>>,
                               result.entry.bin.data)))

process_spiffs(manifest, device, node) ==
    IF node.kind # "dir" THEN Outcome("NotADirectoryError", FALSE, manifest)
    ELSE spiffs_found(manifest, device, latest_version_dir(node.list))

\* cfg_path.exists() is False under a plain file as well as in a directory
\* without config.yaml
process_config(manifest, device, node) ==
    IF node.kind # "dir" \/ ~node.yaml.exists THEN Outcome("", FALSE, manifest)
    ELSE Outcome("", TRUE,
             SetItem(manifest, "config",
                     Artifact(Url(<<CONFIG, device, CONFIG_YAML>>),
                              sha256_of(node.yaml.data), <<>>)))

----------------------------------------------------------------------------
(* The working tree *)

Roots == {"firmware", "spiffs", "config"}

DeviceNames == {<<"b">>, <<"Z">>}

\* what a root holds under a device name: nothing, a plain file, or a
\* directory with its entries in iterdir() order and its config.yaml
NoNode == [kind |-> "none", list |-> <<>>, yaml |-> NoFile]
PlainFile == [kind |-> "file", list |-> <<>>, yaml |-> NoFile]
Dir(list, yaml) == [kind |-> "dir", list |-> list, yaml |-> yaml]

Entry(name, is_dir, bin) == [name |-> name, is_dir |-> is_dir, bin |-> bin]

MissingRoot == [exists |-> FALSE, nodes |-> [d \in DeviceNames |-> NoNode]]

\* Path.exists() and Path.is_dir() of <root>/<device>
exists(root, device) == tree[root].exists /\ tree[root].nodes[device].kind # "none"
is_dir(root, device) == tree[root].exists /\ tree[root].nodes[device].kind = "dir"

manifest_name(device) == Join(device) \o ".manifest.json"

----------------------------------------------------------------------------
(* main *)

\* variant of discover_devices: entries are not tested with is_dir()
discover_devices_any_entry == {d \in DeviceNames : \E root \in Roots : exists(root, d)}

\* the set `devices`: every sub-directory name of every root that exists
discover_devices == {d \in DeviceNames : \E root \in Roots : is_dir(root, d)}

Note(device) ==
    "  Note: no firmware binary found for " \o Join(device)
        \o "; firmware section not updated."

\* how one iteration of the loop ends: the exception raised (if any), the
\* lines printed, and the manifest saved
Raise(e, lines) == [raised |-> e, printed |-> lines, saved |-> <<>>]
Saved(device, lines, manifest) ==
    [raised |-> "",
     printed |-> Append(lines, "Updated " \o manifest_name(device)),
     saved |-> manifest]

\* lines 153-158: process_config, save_manifest, print
after_spiffs(device, printed, sp) ==
    IF sp.raised # "" THEN Raise(sp.raised, printed)
    ELSE IF ~tree["firmware"].exists THEN Raise("FileNotFoundError", printed)
    ELSE Saved(device, printed,
               (IF exists("config", device)
                THEN process_config(sp.manifest, device, tree["config"].nodes[device])
                ELSE Outcome("", FALSE, sp.manifest)).manifest)

\* lines 149-152: the note, then process_spiffs
after_firmware(device, fw) ==
    IF fw.raised # "" THEN Raise(fw.raised, <<>>)
    ELSE after_spiffs(device,
                      IF ~fw.found THEN <<Note(device)>> ELSE <<>>,
                      IF exists("spiffs", device)
                      THEN process_spiffs(fw.manifest, device, tree["spiffs"].nodes[device])
                      ELSE Outcome("", FALSE, fw.manifest))

\* lines 144-148: process_firmware when fw_dir exists
after_defaults(device, manifest) ==
    after_firmware(device,
                   IF exists("firmware", device)
                   THEN process_firmware(manifest, device, tree["firmware"].nodes[device])
                   ELSE Outcome("", FALSE, manifest))

\* lines 137-142: the three setdefault calls on what load_manifest returned
after_load(device, loaded) ==
    IF loaded.raised # "" THEN Raise(loaded.raised, <<>>)
    ELSE IF ~loaded.is_dict THEN Raise("AttributeError", <<>>)
    ELSE after_defaults(device,
             setdefault(setdefault(setdefault(loaded.dict,
                 "$schema", Str(REPO_URL_BASE \o "/manifest.schema.json")),
                 "name", Str(Join(device))),
                 "chip", Str("esp32")))

\* the body of the loop `for device in sorted(devices)` for one device
LoopIteration(device) == after_load(device, load_manifest(manifests[device]))

\* lines 121-130: collect the devices; return at once when there are none
Discover ==
    /\ pc = "start"
    /\ IF discover_devices = {}
       THEN /\ out' = Append(out, "No device directories found; nothing to do.")
            /\ pc' = "exit"
            /\ status' = "ok"
            /\ todo' = <<>>
       ELSE /\ out' = out
            /\ pc' = "loop"
            /\ status' = status
            /\ todo' = sorted(discover_devices)
    /\ UNCHANGED <<tree, manifests, updated, run, start, touched, lv>>

\* variant of Iterate: one manifest path for all devices, so that every
\* existing manifest file is overwritten
Iterate_one_path(device, it) ==
    /\ out' = out \o it.printed
    /\ IF it.raised # ""
       THEN /\ pc' = "exit"
            /\ status' = it.raised
            /\ UNCHANGED <<manifests, updated, todo>>
       ELSE /\ manifests' = [d \in DeviceNames |->
                                IF d = device \/ manifests[d].kind # "absent"
                                THEN save_manifest(it.saved) ELSE manifests[d]]
            /\ updated' = Append(updated, manifest_name(device))
            /\ todo' = Tail(todo)
            /\ UNCHANGED <<pc, status>>

\* the effect of one iteration `it` of the loop on main's state
Iterate(device, it) ==
    /\ out' = out \o it.printed
    /\ IF it.raised # ""
       THEN /\ pc' = "exit"
            /\ status' = it.raised
            /\ UNCHANGED <<manifests, updated, todo>>
       ELSE /\ manifests' = [manifests EXCEPT ![device] = save_manifest(it.saved)]
            /\ updated' = Append(updated, manifest_name(device))
            /\ todo' = Tail(todo)
            /\ UNCHANGED <<pc, status>>

\* lines 133-158: one iteration of the loop, or the exception that ends main
ProcessDevice ==
    /\ pc = "loop"
    /\ todo # <<>>
    /\ Iterate(Head(todo), LoopIteration(Head(todo)))
    /\ UNCHANGED <<tree, run, start, touched, lv>>

\* line 160: the loop is over
Finish ==
    /\ pc = "loop"
    /\ todo = <<>>
    /\ out' = Append(out, "\nDone. " \o ToString(Len(updated)) \o " manifest(s) updated.")
    /\ pc' = "exit"
    /\ status' = "ok"
    /\ UNCHANGED <<tree, manifests, todo, updated, run, start, touched, lv>>

----------------------------------------------------------------------------
(* The environment between two invocations *)

\* `touched.run` is the invocation that first sees the changed binary
Untouched == [run |-> 0, root |-> "", device |-> <<>>, index |-> 0]

\* one binary <root>/<device>/<version>/<root>.bin is cut to a shorter
\* length, once in a behaviour
Truncate ==
    /\ pc = "exit"
    /\ run < MaxRuns
    /\ touched = Untouched
    /\ \E root \in {"firmware", "spiffs"}, d \in DeviceNames :
         /\ is_dir(root, d)
         /\ \E i \in 1..Len(tree[root].nodes[d].list) :
              LET e == tree[root].nodes[d].list[i] IN
              /\ e.is_dir
              /\ e.bin.exists
              /\ \E k \in 0..(Len(e.bin.data) - 1) :
                   /\ tree' = [tree EXCEPT ![root].nodes[d].list[i].bin.data =
                                                SubSeq(e.bin.data, 1, k)]
                   /\ touched' = [run |-> run + 1, root |-> root, device |-> d, index |-> i]
    /\ UNCHANGED <<manifests, pc, status, todo, updated, out, run, start, lv>>

\* main is invoked again
Rerun ==
    /\ pc = "exit"
    /\ run < MaxRuns
    /\ pc' = "start"
    /\ status' = "running"
    /\ todo' = <<>>
    /\ updated' = <<>>
    /\ out' = <<>>
    /\ run' = run + 1
    /\ start' = manifests
    /\ UNCHANGED <<tree, manifests, touched, lv>>

Next == Discover \/ ProcessDevice \/ Finish \/ Truncate \/ Rerun

----------------------------------------------------------------------------
(* Input trees *)

Bytes == {1, 255}

\* file contents: up to MaxBytes bytes, all the same
Contents == {[i \in 1..n |-> b] : n \in 0..MaxBytes, b \in Bytes}

V9_0_0 == <<"v", "9", ".", "0", ".", "0">>
V10_0_0 == <<"v", "1", "0", ".", "0", ".", "0">>
V1_0_0 == <<"v", "1", ".", "0", ".", "0">>
V1_2_0 == <<"v", "1", ".", "2", ".", "0">>
V01_2_0 == <<"v", "0", "1", ".", "2", ".", "0">>
V1_10_0 == <<"v", "1", ".", "1", "0", ".", "0">>
V1_2 == <<"v", "1", ".", "2">>
V2_0_0_nonmatching ==
    <<"v", "2", ".", "0", ".", "0", "-", "n", "o", "n", "m", "a", "t", "c", "h", "i", "n", "g">>
Bare_3_0_0 == <<"3", ".", "0", ".", "0">>

\* sequences of at most `max` entries of E with pairwise different names
Listings(E, max) ==
    UNION {{l \in [1..n -> E] : \A i, j \in 1..n : i # j => l[i].name # l[j].name}
           : n \in 0..max}

Bins == {NoFile} \cup {File(c) : c \in Contents}

\* device directories of firmware/ and spiffs/ explored in depth
RunEntries == {Entry(n, TRUE, b) : n \in {V9_0_0, V10_0_0}, b \in Bins}
DeepNodes == {NoNode, PlainFile} \cup {Dir(l, NoFile) : l \in Listings(RunEntries, MaxEntries)}

\* a few device directories of firmware/ and spiffs/
Full == [i \in 1..MaxBytes |-> 1]
FewNodes ==
    {NoNode, PlainFile,
     Dir(<<Entry(V9_0_0, TRUE, File(Full))>>, NoFile),
     Dir(<<Entry(V10_0_0, TRUE, NoFile), Entry(V9_0_0, TRUE, File(Full))>>, NoFile)}
FewSpiffs ==
    {NoNode, Dir(<<Entry(V9_0_0, TRUE, File(Full)), Entry(V10_0_0, TRUE, File(<<255>>))>>, NoFile)}
FewConfig == {NoNode, Dir(<<>>, File(<<1>>))}

\* device directories of spiffs/ and config/ beside the firmware directory
\* explored in depth
SpiffsNodes ==
    {NoNode,
     Dir(<<Entry(V9_0_0, TRUE, File(Full)), Entry(V10_0_0, TRUE, File(<<255>>))>>, NoFile)}
ConfigNodes == {NoNode, PlainFile, Dir(<<>>, File(<<1>>))}

Stale == Artifact("https://old.example/stale.bin", "00", <<7>>)

\* manifest files found before the first invocation
ManifestFiles ==
    {Absent,
     Json("compact", <<>>),
     Json("compact", <<Pair("extra", Str("first")), Pair("name", Str("custom")),
                       Pair("extra", Str("last"))>>),
     Json("indent2", <<Pair("chip", Str("esp8266")), Pair("version", Str("0.9.0")),
                       Pair("firmware", Stale), Pair("$schema", Str("local"))>>),
     Json("indent2", <<Pair("spiffs", Stale), Pair("note", Str("keep")),
                       Pair("config", Stale)>>)}

FewManifests ==
    {Absent, Malformed, NonObject,
     Json("compact", <<Pair("extra", Str("first")), Pair("name", Str("custom")),
                       Pair("extra", Str("last"))>>),
     Json("indent2", <<Pair("chip", Str("esp8266")), Pair("version", Str("0.9.0")),
                       Pair("firmware", Stale), Pair("$schema", Str("local"))>>)}

RunInit ==
    /\ pc = "start"
    /\ status = "running"
    /\ todo = <<>>
    /\ updated = <<>>
    /\ out = <<>>
    /\ run = 1
    /\ start = manifests
    /\ touched = Untouched
    /\ lv = [pc |-> "idle", all |-> <<>>, rest |-> <<>>, best |-> None, result |-> None]

\* a root that holds nothing may be an empty directory or not exist at all
RootOf(nodes, others) ==
    {[exists |-> x, nodes |-> nodes] :
        x \in {TRUE} \cup {y \in {FALSE} : others /\ \A d \in DeviceNames : nodes[d] = NoNode}}

\* every tree over DeviceNames built from the few nodes
Init ==
    /\ \E fw \in [DeviceNames -> FewNodes], sp \in [DeviceNames -> FewSpiffs],
          cfg \in [DeviceNames -> FewConfig] :
         \E f \in RootOf(fw, TRUE), s \in RootOf(sp, TRUE), c \in RootOf(cfg, TRUE) :
            /\ tree = [firmware |-> f, spiffs |-> s, config |-> c]
            /\ IF f.exists
               THEN \E m \in [DeviceNames -> FewManifests] :
                        manifests = m
               ELSE manifests = [d \in DeviceNames |-> Absent]
    /\ RunInit

Spec == Init /\ [][Next]_vars

\* one device, its firmware directory explored in depth
InitDevice ==
    /\ \E d \in {<<"b">>}, fw \in DeepNodes, sp \in SpiffsNodes, cfg \in ConfigNodes,
          m \in ManifestFiles :
         LET only(n) == [x \in DeviceNames |-> IF x = d THEN n ELSE NoNode] IN
         \E f \in RootOf(only(fw), m = Absent), s \in RootOf(only(sp), TRUE),
            c \in RootOf(only(cfg), TRUE) :
            /\ tree = [firmware |-> f, spiffs |-> s, config |-> c]
            /\ manifests = [x \in DeviceNames |-> IF x = d THEN m ELSE Absent]
    /\ RunInit

SpecDevice == InitDevice /\ [][Next]_vars

----------------------------------------------------------------------------
(* latest_version_dir on its own, one pass of its loop per step *)

VersionNames ==
    {V1_0_0, V1_2_0, V01_2_0, V1_10_0, V9_0_0, V10_0_0,
     V2_0_0_nonmatching, V1_2, Bare_3_0_0}

VersionEntries == {Entry(n, b, NoFile) : n \in VersionNames, b \in BOOLEAN}

NoTree == [firmware |-> MissingRoot, spiffs |-> MissingRoot, config |-> MissingRoot]

InitVersion ==
    /\ \E l \in Listings(VersionEntries, MaxListing) :
         lv = [pc |-> "loop", all |-> l, rest |-> l, best |-> None, result |-> None]
    /\ tree = NoTree
    /\ manifests = [d \in DeviceNames |-> Absent]
    /\ pc = "exit"
    /\ status = "ok"
    /\ todo = <<>>
    /\ updated = <<>>
    /\ out = <<>>
    /\ run = MaxRuns
    /\ start = manifests
    /\ touched = Untouched

\* lines 42-50: the loop body for the next entry of iterdir()
LvIterate ==
    /\ lv.pc = "loop"
    /\ lv.rest # <<>>
    /\ lv' = [lv EXCEPT !.best = LoopBody(lv.best, Head(lv.rest)), !.rest = Tail(lv.rest)]
    /\ UNCHANGED <<tree, manifests, pc, status, todo, updated, out, run, start, touched>>

\* lines 51-53: the loop is over
LvReturn ==
    /\ lv.pc = "loop"
    /\ lv.rest = <<>>
    /\ lv' = [lv EXCEPT !.pc = "returned", !.result = lv.best]
    /\ UNCHANGED <<tree, manifests, pc, status, todo, updated, out, run, start, touched>>

NextVersion == LvIterate \/ LvReturn

SpecVersion == InitVersion /\ [][NextVersion]_vars

----------------------------------------------------------------------------
(* What the claims speak of, defined apart from the code above *)

\* name is v<int>.<int>.<int>, the dots at positions i and j
SemverAt(name, i, j) ==
    /\ 2 < i /\ i + 1 < j /\ j < Len(name)
    /\ name[1] = "v" /\ name[i] = "." /\ name[j] = "."
    /\ \A k \in 2..Len(name) : k \notin {i, j} => name[k] \in Digits

Dots(name) == {k \in 1..Len(name) : name[k] = "."}

IsSemver(name) == \E i, j \in Dots(name) : SemverAt(name, i, j)

\* the number a string of digits denotes, most significant digit first
RECURSIVE Number(_, _)
Number(digits, acc) ==
    IF digits = <<>> THEN acc
    ELSE Number(Tail(digits), 10 * acc + (CHOOSE n \in 0..9 : HexDigit[n + 1] = Head(digits)))

\* (major, minor, patch) of a name that IsSemver
Triple(name) ==
    LET ij == CHOOSE ij \in Dots(name) \X Dots(name) : SemverAt(name, ij[1], ij[2])
    IN  <<Number(SubSeq(name, 2, ij[1] - 1), 0),
          Number(SubSeq(name, ij[1] + 1, ij[2] - 1), 0),
          Number(SubSeq(name, ij[2] + 1, Len(name)), 0)>>

\* numeric comparison of triples, major first
AtLeast(a, b) ==
    \/ a[1] > b[1]
    \/ a[1] = b[1] /\ a[2] > b[2]
    \/ a[1] = b[1] /\ a[2] = b[2] /\ a[3] >= b[3]

\* the entries of a listing that are version directories
VersionDirs(list) == {i \in 1..Len(list) : list[i].is_dir /\ IsSemver(list[i].name)}

\* the version directories of a listing no other exceeds
Highest(list) ==
    LET dirs == VersionDirs(list)
        triple == [i \in dirs |-> Triple(list[i].name)]
    IN  {i \in dirs : \A j \in dirs : AtLeast(triple[i], triple[j])}

----------------------------------------------------------------------------
(* C2 *)

\* C2: latest_version_dir returns a sub-directory whose name matches
\* v<int>.<int>.<int> and whose (major, minor, patch) is greatest under
\* numeric comparison, with its name less the leading v as version string;
\* files and non-matching names are ignored; it returns None exactly when no
\* sub-directory matches.
C2_LatestVersionDir ==
    lv.pc = "returned" =>
        /\ lv.result.some <=> VersionDirs(lv.all) # {}
        /\ lv.result.some =>
              \E i \in Highest(lv.all) :
                 /\ lv.result.entry = lv.all[i]
                 /\ lv.result.version = Tail(lv.all[i].name)

\* v10.0.0 is returned although v9.0.0 is greater as a string, and the
\* non-matching v2.0.0-nonmatching is passed over
C2_Witness ==
    /\ lv.pc = "returned"
    /\ lv.result.some
    /\ lv.result.entry.name = V10_0_0
    /\ \E i, j \in 1..Len(lv.all) :
         /\ lv.all[i] = Entry(V9_0_0, TRUE, NoFile)
         /\ lv.all[j] = Entry(V2_0_0_nonmatching, TRUE, NoFile)

----------------------------------------------------------------------------
(* Vocabulary of the claims about main *)

\* the device's manifest was saved by the current invocation
Written(d) == \E i \in 1..Len(updated) : updated[i] = manifest_name(d)

\* the current invocation has ended, and has saved the device's manifest
Ended(d) == pc = "exit" /\ Written(d)

\* the tree is as the current invocation saw it (no binary changed since)
Settled == touched.run # run + 1

\* sub-directory names of the three roots
SubDirs(root) == {d \in DeviceNames : tree[root].exists /\ tree[root].nodes[d].kind = "dir"}
Discovered == SubDirs("firmware") \cup SubDirs("spiffs") \cup SubDirs("config")

\* the manifest of d is, or was at the start of the invocation, a JSON object
IsObject(file) == file.kind = "json"

\* the members of a manifest file: its names, and the value of each (the
\* last one when a name is repeated)
Keys(file) == {file.items[i].key : i \in 1..Len(file.items)}
LastIndex(file, k) ==
    CHOOSE i \in 1..Len(file.items) :
        /\ file.items[i].key = k
        /\ \A j \in 1..Len(file.items) : file.items[j].key = k => j <= i
Value(file, k) == file.items[LastIndex(file, k)].val

\* the file has member k with value v
HasValue(file, k, v) == k \in Keys(file) /\ Value(file, k) = v

\* key k is the same in both files: absent from both, or equal
SameKey(old, new, k) ==
    /\ k \in Keys(old) <=> k \in Keys(new)
    /\ k \in Keys(old) => Value(old, k) = Value(new, k)

\* each byte as two lowercase hexadecimal characters
RECURSIVE Hex(_)
Hex(data) ==
    IF data = <<>> THEN ""
    ELSE HexDigit[(data[1] \div 16) + 1] \o HexDigit[(data[1] % 16) + 1] \o Hex(Tail(data))

FirmwareList(d) == tree["firmware"].nodes[d].list

\* firmware/<d> is a directory and each of its highest version directories
\* holds firmware.bin
HighestHasBin(d) ==
    /\ d \in SubDirs("firmware")
    /\ LET highest == Highest(FirmwareList(d))
       IN  highest # {} /\ \A i \in highest : FirmwareList(d)[i].bin.exists

\* the manifest file carries version and firmware of version directory e
Advertises(file, d, e) ==
    /\ {"version", "firmware"} \subseteq Keys(file)
    /\ Value(file, "version") = Str(Join(Tail(e.name)))
    /\ Value(file, "firmware").size = <<Len(e.bin.data)>>
    /\ Value(file, "firmware").sha256 = Hex(e.bin.data)
    /\ Value(file, "firmware").url =
          REPO_URL_BASE \o "/firmware/" \o Join(d) \o "/" \o Join(e.name) \o "/firmware.bin"

OnlyFirmware(d) ==
    /\ d \in SubDirs("firmware")
    /\ tree["spiffs"].nodes[d].kind = "none"
    /\ tree["config"].nodes[d].kind = "none"

NotePrinted(d) == \E i \in 1..Len(out) : out[i] = Note(d)

----------------------------------------------------------------------------
(* C1 *)

\* C1: the firmware-missing note is printed for a processed device if and
\* only if firmware/<device> exists but yields no usable firmware.bin; a
\* device whose firmware root never existed gets no note.
C1_NoteOnlyWhenFirmwareRootExists ==
    \A d \in DeviceNames :
        Ended(d) /\ Settled =>
            (NotePrinted(d) <=>
                /\ tree["firmware"].nodes[d].kind # "none"
                /\ ~HighestHasBin(d))

----------------------------------------------------------------------------
(* C3 *)

\* C3 as stated: for a device with only a firmware tree (which holds a
\* firmware.bin in some version directory), the manifest written has version
\* of the highest version directory and firmware size and sha256 of its binary.
C3_Original ==
    \A d \in DeviceNames :
        /\ Ended(d) /\ Settled /\ OnlyFirmware(d)
        /\ \E i \in VersionDirs(FirmwareList(d)) : FirmwareList(d)[i].bin.exists
        => \E i \in Highest(FirmwareList(d)) :
              Advertises(manifests[d], d, FirmwareList(d)[i])

\* C3 amended: for a device with only a firmware tree whose highest version
\* directory holds firmware.bin, the manifest written has version equal to
\* that directory's name less the leading v, and a firmware key with size the
\* byte length and sha256 the digest of that binary.
C3_FirmwareOnly ==
    \A d \in DeviceNames :
        Ended(d) /\ Settled /\ OnlyFirmware(d) /\ HighestHasBin(d)
        => \E i \in Highest(FirmwareList(d)) :
              Advertises(manifests[d], d, FirmwareList(d)[i])

\* v10.0.0 beside v9.0.0, both with a binary, and nothing else for the device
C3_Witness ==
    \E d \in DeviceNames :
        /\ Ended(d) /\ Settled /\ OnlyFirmware(d) /\ HighestHasBin(d)
        /\ Len(FirmwareList(d)) = 2
        /\ HasValue(manifests[d], "version", Str("10.0.0"))
        /\ "firmware" \in Keys(manifests[d])
        /\ Value(manifests[d], "firmware").size = <<MaxBytes>>

----------------------------------------------------------------------------
(* C4 *)

\* C4: a second invocation with firmware/, spiffs/ and config/ unchanged
\* leaves every manifest file as the first one left it.
C4_Idempotent ==
    run >= 2 /\ touched.run # run => manifests = start

\* the second invocation has rewritten both manifests
C4_Witness ==
    /\ run = 2 /\ touched.run # run
    /\ pc = "exit" /\ status = "ok"
    /\ Len(updated) = 2
    /\ \E d \in DeviceNames : {"extra", "firmware", "spiffs", "config"} \subseteq Keys(manifests[d])

----------------------------------------------------------------------------
(* C5 *)

Defaults(d) ==
    [schema |-> Str(REPO_URL_BASE \o "/manifest.schema.json"),
     name |-> Str(Join(d)), chip |-> Str("esp32")]

\* C5: every key of a pre-existing manifest other than version, firmware,
\* spiffs and config has the same value in the manifest written; $schema,
\* name and chip get their defaults only when absent.
C5_MergeFrame ==
    \A d \in DeviceNames :
        Written(d) /\ IsObject(start[d]) =>
            /\ \A k \in Keys(start[d]) \ {"version", "firmware", "spiffs", "config"} :
                  HasValue(manifests[d], k, Value(start[d], k))
            /\ "$schema" \notin Keys(start[d]) => HasValue(manifests[d], "$schema", Defaults(d).schema)
            /\ "name" \notin Keys(start[d]) => HasValue(manifests[d], "name", Defaults(d).name)
            /\ "chip" \notin Keys(start[d]) => HasValue(manifests[d], "chip", Defaults(d).chip)

\* a first invocation keeps extra and a custom name while it adds firmware
C5_Witness ==
    \E d \in DeviceNames :
        /\ run = 1 /\ Written(d) /\ IsObject(start[d])
        /\ "firmware" \in Keys(manifests[d]) /\ "firmware" \notin Keys(start[d])
        /\ HasValue(manifests[d], "extra", Str("last"))
        /\ HasValue(manifests[d], "name", Str("custom"))
        /\ HasValue(manifests[d], "chip", Str("esp32"))

----------------------------------------------------------------------------
(* C6 *)

\* C6: version and firmware are both overwritten, exactly when the highest
\* version directory of firmware/<device> holds firmware.bin, or both left as
\* loaded (absent stays absent, stale stays stale); there is no fallback to a
\* lower version directory, and spiffs and config processing leave both alone.
C6_VersionAndFirmwareTogether ==
    \A d \in DeviceNames :
        Ended(d) /\ Settled =>
            IF HighestHasBin(d)
            THEN \E i \in Highest(FirmwareList(d)) :
                    Advertises(manifests[d], d, FirmwareList(d)[i])
            ELSE /\ SameKey(start[d], manifests[d], "version")
                 /\ SameKey(start[d], manifests[d], "firmware")

\* v10.0.0 without firmware.bin above v9.0.0 with one: the stale version
\* and firmware stay although spiffs is written
C6_Witness ==
    \E d \in DeviceNames :
        /\ run = 1 /\ Written(d)
        /\ \E i, j \in 1..Len(FirmwareList(d)) :
              /\ FirmwareList(d)[i].name = V10_0_0 /\ ~FirmwareList(d)[i].bin.exists
              /\ FirmwareList(d)[j].name = V9_0_0 /\ FirmwareList(d)[j].bin.exists
        /\ HasValue(manifests[d], "version", Str("0.9.0"))
        /\ HasValue(manifests[d], "firmware", Stale)
        /\ "spiffs" \in Keys(manifests[d]) /\ "spiffs" \notin Keys(start[d])

----------------------------------------------------------------------------
(* C7 *)

\* the manifest of d could be loaded as an object when the invocation began
Loadable(d) == start[d].kind \in {"absent", "json"}

\* C7: when at least one device directory exists, no pre-existing manifest
\* is malformed (and nothing named like a device is a plain file), the run
\* ends having written exactly one manifest per discovered device and none
\* for any other name.
C7_OneManifestPerDevice ==
    /\ pc = "exit" /\ Settled
    /\ Discovered # {}
    /\ \A d \in DeviceNames : Loadable(d)
    /\ \A root \in Roots, d \in DeviceNames : tree[root].nodes[d].kind # "file"
    => /\ status = "ok"
       /\ \A d \in Discovered : Written(d) /\ IsObject(manifests[d])
       /\ \A d \in DeviceNames \ Discovered : ~Written(d) /\ manifests[d] = start[d]

----------------------------------------------------------------------------
(* C8 *)

\* C8: when no sub-directory exists under any of firmware/, spiffs/ and
\* config/, the run prints the nothing-to-do message, ends successfully and
\* leaves every file as it was.
C8_NothingToDo ==
    Discovered = {} =>
        /\ pc \in {"start", "exit"}
        /\ pc = "exit" =>
              /\ status = "ok"
              /\ out = <<"No device directories found; nothing to do.">>
              /\ updated = <<>>
              /\ manifests = start

\* a manifest and a plain file named like a device lie in firmware/, and
\* spiffs/ does not exist
C8_Witness ==
    /\ Discovered = {} /\ pc = "exit"
    /\ \E d \in DeviceNames : IsObject(manifests[d])
    /\ \E d \in DeviceNames : tree["firmware"].nodes[d].kind = "file"
    /\ ~tree["spiffs"].exists

----------------------------------------------------------------------------
(* C9 *)

\* the value differs from the old one in sha256 and size at most
SameButDigest(old, new) == new = [old EXCEPT !.sha256 = new.sha256, !.size = new.size]

\* the file differs from the old one at most in sha256 and size of key k
SameButArtifact(old, new, k) ==
    /\ new.kind = old.kind /\ new.style = old.style
    /\ Len(new.items) = Len(old.items)
    /\ \A i \in 1..Len(new.items) :
          /\ new.items[i].key = old.items[i].key
          /\ IF new.items[i].key = k
             THEN SameButDigest(old.items[i].val, new.items[i].val)
             ELSE new.items[i].val = old.items[i].val

\* C9: when only the contents of one device's binary changed between two
\* runs, the second run changes that device's manifest alone, and in it only
\* sha256 and size of the record of that artifact.
C9_OnlyDigestChanges ==
    run >= 2 /\ touched.run = run =>
        /\ \A d \in DeviceNames \ {touched.device} : manifests[d] = start[d]
        /\ SameButArtifact(start[touched.device], manifests[touched.device], touched.root)

\* the firmware of one device was cut, its manifest has changed, and the
\* other device's manifest was saved again by the same run
C9_Witness ==
    /\ run = 2 /\ touched.run = run /\ touched.root = "firmware"
    /\ pc = "exit" /\ status = "ok" /\ Len(updated) = 2
    /\ manifests[touched.device] # start[touched.device]
    /\ \A d \in DeviceNames : "firmware" \in Keys(manifests[d])

----------------------------------------------------------------------------
(* C10 *)

Aborted == pc = "exit" /\ status \in {"JSONDecodeError", "AttributeError"}

\* C10: a malformed pre-existing manifest aborts the run at that device:
\* exactly the discovered devices that sort before it have their manifests
\* written in the new state, its own manifest and those of the devices after
\* it are unchanged, and the run does not reach Done.
C10_AbortWithoutRollback ==
    /\ Aborted =>
          LET failing == Head(todo) IN
          /\ ~Loadable(failing)
          /\ \A d \in DeviceNames :
                IF d \in Discovered /\ StrLess(d, failing)
                THEN Written(d) /\ manifests[d].style = "indent2"
                ELSE ~Written(d) /\ manifests[d] = start[d]
          /\ \A i \in 1..Len(out) : out[i] # "\nDone. " \o ToString(Len(updated)) \o " manifest(s) updated."
    /\ pc = "exit" /\ status = "ok" => \A d \in Discovered : Loadable(d)

\* Z sorts before b: the manifest of Z was written, then b's was malformed
C10_Witness ==
    /\ Aborted /\ run = 1
    /\ Head(todo) = <<"b">>
    /\ Written(<<"Z">>)
    /\ manifests[<<"Z">>] # start[<<"Z">>]

====
